---- MODULE Spec2Model ----
(***************************************************************************)
(* Regular expression -> NFA by Thompson's construction                    *)
(* (src/regext_to_nfa.py).                                                 *)
(*                                                                         *)
(* A string is a sequence of one-character strings.  Python objects whose  *)
(* identity matters (the inner label -> destinations dicts and the         *)
(* destination sets of a transition table) live in two heaps, `dicts' and  *)
(* `sets', indexed by object identifier; a fragment's outer dict maps a    *)
(* state to the identifier of its inner dict.  Python exceptions are       *)
(* recorded by class name in `err'.                                        *)
(***************************************************************************)
EXTENDS Integers, Sequences, FiniteSets, TLC

VARIABLES
    entry,          \* the function the caller invoked
    regex,          \* regex_to_nfa / infix_to_postfix argument
    pc,             \* position of the call: "insert", "shunt", "thompson", "done"
    explicit,       \* infix_to_postfix: regex with '.' inserted
    idx,            \* index of the next character of the running for-loop
    output,         \* infix_to_postfix: output list
    opstack,        \* infix_to_postfix: operator stack (local `stack')
    postfix,        \* <<p>> once the postfix string p exists, <<>> before
    stack,          \* postfix_to_nfa: fragment stack (local `stack')
    dicts,          \* heap of inner dicts: identifier -> (label -> set identifier)
    sets,           \* heap of destination sets: identifier -> set of states
    next_state_id,  \* postfix_to_nfa: next_state_id[0]
    err,            \* "none", or the class of the exception that ended the call
    result,         \* <<nfa>> once an NFA was returned, <<>> otherwise
    first,          \* <<[regex, err, result]>>: outcome of the first call made
    between         \* a call on another input was made after the first call

vars == <<entry, regex, pc, explicit, idx, output, opstack, postfix, stack,
          dicts, sets, next_state_id, err, result, first, between>>

-----------------------------------------------------------------------------
(* Bounds and input sets *)

MaxLen == 4         \* longest enumerated regex / postfix string
MaxStr == 3         \* longest string fed to the finished automaton
MaxCallLen == 2     \* longest regex of the repeated call
MaxOtherLen == 1    \* longest regex of the calls made in between

EPS == "ε"
Literals == {"a", "b"}
Alphabet == Literals \cup {"(", ")", "|", "*", "+", "?"}
PostfixAlphabet == Literals \cup {"*", "+", "?", ".", "|"}

SeqsUpTo(S, n) == UNION {[1..k -> S] : k \in 0..n}

Examples ==
    { <<"(", "a", "|", "b", ")", "?", "a">>,
      <<"(", "a", "|", "b", ")", "*">>,
      <<"(", "a", "b", ")", "+">>,
      <<"a", "(", "b", "|", "a", ")", "*", "b">>,
      <<"(", "a", "*", "b", ")", "*">>,
      <<"(", "(", "a", ")", ")", "b", "?">>,
      <<"a", "|", "b", "a", "*">>,
      <<"(", "a", ")", ")">>,
      <<"(", "(", "a", ")">> }

Inputs == SeqsUpTo(Alphabet, MaxLen) \cup Examples
PostfixInputs == SeqsUpTo(PostfixAlphabet, MaxLen)
CallInputs == SeqsUpTo(Alphabet, MaxCallLen)
OtherInputs == SeqsUpTo(Alphabet, MaxOtherLen)

-----------------------------------------------------------------------------
(* infix_to_postfix, step 1: explicit concatenation *)

NeedsConcat_NoOption(c, nxt) ==
    /\ c \notin {"(", "|"}
    /\ nxt \notin {")", "|", "*", "+"}

NeedsConcat(c, nxt) ==
    /\ c \notin {"(", "|"}
    /\ nxt \notin {")", "|", "*", "+", "?"}

RECURSIVE InsertLoop(_, _, _)
InsertLoop(r, i, acc) ==
    IF i > Len(r) THEN acc
    ELSE LET c == r[i]
             e1 == Append(acc, c)
             e2 == IF i < Len(r) /\ NeedsConcat(c, r[i + 1])
                   THEN Append(e1, ".") ELSE e1
         IN InsertLoop(r, i + 1, e2)

InsertConcat(r) == InsertLoop(r, 1, <<>>)

-----------------------------------------------------------------------------
(* infix_to_postfix, step 2: shunting yard.  Each helper returns the       *)
(* locals [output, stack, err] after the branch of the loop body.          *)

precedence_ConcatLow ==
    [c \in {"*", "+", "?", ".", "|", "("} |->
        CASE c \in {"*", "+", "?"} -> 3
          [] c = "." -> 1
          [] c = "|" -> 2
          [] OTHER -> 0]

precedence ==
    [c \in {"*", "+", "?", ".", "|", "("} |->
        CASE c \in {"*", "+", "?"} -> 3
          [] c = "." -> 2
          [] c = "|" -> 1
          [] OTHER -> 0]

Top(s) == s[Len(s)]
Pop(s) == SubSeq(s, 1, Len(s) - 1)

\* top = stack.pop(); while top != '(': output.append(top); top = stack.pop()
RECURSIVE PopUntilOpen(_, _)
PopUntilOpen(out, stk) ==
    IF Len(stk) = 0 THEN [output |-> out, stack |-> stk, err |-> "IndexError"]
    ELSE IF Top(stk) = "(" THEN [output |-> out, stack |-> Pop(stk), err |-> "none"]
    ELSE PopUntilOpen(Append(out, Top(stk)), Pop(stk))

\* while stack and precedence[stack[-1]] >= precedence[char]: output.append(stack.pop())
RECURSIVE PopHigher(_, _, _)
PopHigher(out, stk, char) ==
    IF Len(stk) > 0 /\ precedence[Top(stk)] >= precedence[char]
    THEN PopHigher(Append(out, Top(stk)), Pop(stk), char)
    ELSE [output |-> out, stack |-> Append(stk, char), err |-> "none"]

\* while stack: output.append(stack.pop())
RECURSIVE PopAll(_, _)
PopAll(out, stk) ==
    IF Len(stk) = 0 THEN out ELSE PopAll(Append(out, Top(stk)), Pop(stk))

-----------------------------------------------------------------------------
(* class NFA.  `h' is a view of the heap seen from one NFA object:         *)
(* [trans |-> its outer dict, dicts |-> heap of inner dicts,               *)
(*  sets |-> heap of destination sets].                                    *)

NFA(start_state, accept_state, transitions) ==
    [start_state |-> start_state, accept_state |-> accept_state,
     transitions |-> transitions]

\* NFA.add_transition
AddTransition(h, from_state, symbol, to_state) ==
    LET h1 == IF from_state \notin DOMAIN h.trans
              THEN [h EXCEPT !.dicts = Append(@, <<>>),
                             !.trans = @ @@ (from_state :> (Len(h.dicts) + 1))]
              ELSE h
        d  == h1.trans[from_state]
        h2 == IF symbol \notin DOMAIN h1.dicts[d]
              THEN [h1 EXCEPT !.sets = Append(@, {}),
                              !.dicts[d] = @ @@ (symbol :> (Len(h1.sets) + 1))]
              ELSE h1
        s  == h2.dicts[d][symbol]
    IN [h2 EXCEPT !.sets[s] = @ \cup {to_state}]

\* body of the merge loops: nfa.transitions[state][symbol].update(destinations)
MergeEntry(h, state, symbol, destinations) ==
    LET h1 == IF state \notin DOMAIN h.trans
              THEN [h EXCEPT !.dicts = Append(@, <<>>),
                             !.trans = @ @@ (state :> (Len(h.dicts) + 1))]
              ELSE h
        d  == h1.trans[state]
        h2 == IF symbol \notin DOMAIN h1.dicts[d]
              THEN [h1 EXCEPT !.sets = Append(@, {}),
                              !.dicts[d] = @ @@ (symbol :> (Len(h1.sets) + 1))]
              ELSE h1
        s  == h2.dicts[d][symbol]
    IN [h2 EXCEPT !.sets[s] = @ \cup destinations]

\* for state in nfa2.transitions: for symbol, destinations in ...items()
RECURSIVE MergeLoop(_, _, _)
MergeLoop(h, trans2, pending) ==
    IF pending = {} THEN h
    ELSE LET state  == CHOOSE s \in {p[1] : p \in pending} :
                            \A t \in {p[1] : p \in pending} : s <= t
             symbol == CHOOSE l \in {p[2] : p \in {q \in pending : q[1] = state}} : TRUE
             dests  == h.sets[h.dicts[trans2[state]][symbol]]
         IN MergeLoop(MergeEntry(h, state, symbol, dests), trans2,
                      pending \ {<<state, symbol>>})

Merge(h, trans2) ==
    MergeLoop(h, trans2,
              UNION {{<<s, l>> : l \in DOMAIN h.dicts[trans2[s]]} : s \in DOMAIN trans2})

-----------------------------------------------------------------------------
(* postfix_to_nfa: one rule per token.  `st' holds the locals              *)
(* [stack, dicts, sets, next_state_id, err]; a rule returns them after the *)
(* branch, with err set when a pop found the fragment stack empty.         *)

Raise(st, kind) == [st EXCEPT !.err = kind]

HeapOf(st, trans) == [trans |-> trans, dicts |-> st.dicts, sets |-> st.sets]

Pushed(stk, nfa, h, next) ==
    [stack |-> Append(stk, nfa), dicts |-> h.dicts, sets |-> h.sets,
     next_state_id |-> next, err |-> "none"]

LiteralRule(st, char) ==
    LET start  == st.next_state_id
        accept == st.next_state_id + 1
        h1     == AddTransition(HeapOf(st, <<>>), start, char, accept)
    IN Pushed(st.stack, NFA(start, accept, h1.trans), h1, accept + 1)

StarRule(st) ==
    IF Len(st.stack) = 0 THEN Raise(st, "IndexError")
    ELSE LET nfa1   == Top(st.stack)
             start  == st.next_state_id
             accept == st.next_state_id + 1
             h0 == HeapOf(st, nfa1.transitions)
             h1 == AddTransition(h0, start, EPS, nfa1.start_state)
             h2 == AddTransition(h1, nfa1.accept_state, EPS, nfa1.start_state)
             h3 == AddTransition(h2, start, EPS, accept)
             h4 == AddTransition(h3, nfa1.accept_state, EPS, accept)
         IN Pushed(Pop(st.stack), NFA(start, accept, h4.trans), h4, accept + 1)

PlusRule_SkipEdge(st) ==
    IF Len(st.stack) = 0 THEN Raise(st, "IndexError")
    ELSE LET nfa1   == Top(st.stack)
             start  == st.next_state_id
             accept == st.next_state_id + 1
             h0 == HeapOf(st, nfa1.transitions)
             h1 == AddTransition(h0, start, EPS, nfa1.start_state)
             h2 == AddTransition(h1, nfa1.accept_state, EPS, nfa1.start_state)
             h3 == AddTransition(h2, nfa1.accept_state, EPS, accept)
             h4 == AddTransition(h3, start, EPS, accept)
         IN Pushed(Pop(st.stack), NFA(start, accept, h4.trans), h4, accept + 1)

PlusRule(st) ==
    IF Len(st.stack) = 0 THEN Raise(st, "IndexError")
    ELSE LET nfa1   == Top(st.stack)
             start  == st.next_state_id
             accept == st.next_state_id + 1
             h0 == HeapOf(st, nfa1.transitions)
             h1 == AddTransition(h0, start, EPS, nfa1.start_state)
             h2 == AddTransition(h1, nfa1.accept_state, EPS, nfa1.start_state)
             h3 == AddTransition(h2, nfa1.accept_state, EPS, accept)
         IN Pushed(Pop(st.stack), NFA(start, accept, h3.trans), h3, accept + 1)

OptionRule_SkipFromOperand(st) ==
    IF Len(st.stack) = 0 THEN Raise(st, "IndexError")
    ELSE LET nfa1   == Top(st.stack)
             start  == st.next_state_id
             accept == st.next_state_id + 1
             h0 == HeapOf(st, nfa1.transitions)
             h1 == AddTransition(h0, start, EPS, nfa1.start_state)
             h2 == AddTransition(h1, nfa1.accept_state, EPS, accept)
             h3 == AddTransition(h2, nfa1.start_state, EPS, accept)
         IN Pushed(Pop(st.stack), NFA(start, accept, h3.trans), h3, accept + 1)

OptionRule(st) ==
    IF Len(st.stack) = 0 THEN Raise(st, "IndexError")
    ELSE LET nfa1   == Top(st.stack)
             start  == st.next_state_id
             accept == st.next_state_id + 1
             h0 == HeapOf(st, nfa1.transitions)
             h1 == AddTransition(h0, start, EPS, nfa1.start_state)
             h2 == AddTransition(h1, nfa1.accept_state, EPS, accept)
             h3 == AddTransition(h2, start, EPS, accept)
         IN Pushed(Pop(st.stack), NFA(start, accept, h3.trans), h3, accept + 1)

ConcatRule(st) ==
    IF Len(st.stack) < 2 THEN Raise(st, "IndexError")
    ELSE LET nfa2 == Top(st.stack)
             nfa1 == Top(Pop(st.stack))
             h0 == HeapOf(st, nfa1.transitions)
             h1 == Merge(h0, nfa2.transitions)
             h2 == AddTransition(h1, nfa1.accept_state, EPS, nfa2.start_state)
         IN Pushed(Pop(Pop(st.stack)),
                   NFA(nfa1.start_state, nfa2.accept_state, h2.trans), h2,
                   st.next_state_id)

UnionRule(st) ==
    IF Len(st.stack) < 2 THEN Raise(st, "IndexError")
    ELSE LET nfa2   == Top(st.stack)
             nfa1   == Top(Pop(st.stack))
             start  == st.next_state_id
             accept == st.next_state_id + 1
             h0 == HeapOf(st, nfa1.transitions)
             h1 == Merge(h0, nfa2.transitions)
             h2 == AddTransition(h1, start, EPS, nfa1.start_state)
             h3 == AddTransition(h2, start, EPS, nfa2.start_state)
             h4 == AddTransition(h3, nfa1.accept_state, EPS, accept)
             h5 == AddTransition(h4, nfa2.accept_state, EPS, accept)
         IN Pushed(Pop(Pop(st.stack)), NFA(start, accept, h5.trans), h5, accept + 1)

-----------------------------------------------------------------------------
(* The calls as state machines *)

\* a caller invokes regex_to_nfa(r): nothing of the call exists yet
BeginRegex(r) ==
    /\ entry = "regex_to_nfa"
    /\ regex = r
    /\ pc = "insert"
    /\ explicit = <<>> /\ idx = 1 /\ output = <<>> /\ opstack = <<>>
    /\ postfix = <<>> /\ stack = <<>> /\ dicts = <<>> /\ sets = <<>>
    /\ err = "none" /\ result = <<>>

\* a caller invokes postfix_to_nfa(p) directly
BeginPostfix(p) ==
    /\ entry = "postfix_to_nfa"
    /\ regex = <<>>
    /\ pc = "enter_postfix"
    /\ explicit = <<>> /\ idx = 1 /\ output = <<>> /\ opstack = <<>>
    /\ postfix = <<p>> /\ stack = <<>> /\ dicts = <<>> /\ sets = <<>>
    /\ err = "none" /\ result = <<>>

Init ==
    /\ \/ \E r \in Inputs : BeginRegex(r)
       \/ \E p \in PostfixInputs : BeginPostfix(p)
    /\ next_state_id = 0
    /\ first = <<>>
    /\ between = FALSE

\* infix_to_postfix, lines 80-102: step 1 and the locals of step 2
InsertConcatenation ==
    /\ pc = "insert"
    /\ explicit' = InsertConcat(regex)
    /\ output' = <<>>
    /\ opstack' = <<>>
    /\ idx' = 1
    /\ pc' = "shunt"
    /\ UNCHANGED <<entry, regex, postfix, stack, dicts, sets, next_state_id,
                   err, result, first, between>>

ShuntFrame == <<entry, regex, explicit, postfix, stack, dicts, sets,
                next_state_id, result, first, between>>

ShuntChar == explicit[idx]

\* line 115-116
ShuntOpen ==
    /\ pc = "shunt" /\ idx <= Len(explicit) /\ ShuntChar = "("
    /\ opstack' = Append(opstack, ShuntChar)
    /\ idx' = idx + 1
    /\ UNCHANGED <<pc, output, err>>
    /\ UNCHANGED ShuntFrame

\* lines 117-122
ShuntClose ==
    /\ pc = "shunt" /\ idx <= Len(explicit) /\ ShuntChar = ")"
    /\ LET r == PopUntilOpen(output, opstack)
       IN /\ output' = r.output
          /\ opstack' = r.stack
          /\ err' = r.err
          /\ IF r.err = "none"
             THEN idx' = idx + 1 /\ pc' = pc
             ELSE idx' = idx /\ pc' = "done"
    /\ UNCHANGED ShuntFrame

\* lines 123-128
ShuntOperator ==
    /\ pc = "shunt" /\ idx <= Len(explicit)
    /\ ShuntChar \in {"*", "+", "?", ".", "|"}
    /\ LET r == PopHigher(output, opstack, ShuntChar)
       IN /\ output' = r.output
          /\ opstack' = r.stack
    /\ idx' = idx + 1
    /\ UNCHANGED <<pc, err>>
    /\ UNCHANGED ShuntFrame

\* lines 129-131
ShuntOperand ==
    /\ pc = "shunt" /\ idx <= Len(explicit)
    /\ ShuntChar \notin {"(", ")", "*", "+", "?", ".", "|"}
    /\ output' = Append(output, ShuntChar)
    /\ idx' = idx + 1
    /\ UNCHANGED <<pc, opstack, err>>
    /\ UNCHANGED ShuntFrame

\* lines 133-137, and the return into regex_to_nfa (line 306-307)
ShuntReturn ==
    /\ pc = "shunt" /\ idx > Len(explicit)
    /\ output' = PopAll(output, opstack)
    /\ opstack' = <<>>
    /\ postfix' = <<output'>>
    /\ pc' = "enter_postfix"
    /\ UNCHANGED <<entry, regex, explicit, idx, stack, dicts, sets,
                   next_state_id, err, result, first, between>>

FirstStateId_Leftover == next_state_id

\* line 160
FirstStateId == 0

\* postfix_to_nfa, lines 159-167: the locals
EnterPostfixToNfa ==
    /\ pc = "enter_postfix"
    /\ next_state_id' = FirstStateId
    /\ stack' = <<>>
    /\ idx' = 1
    /\ pc' = "thompson"
    /\ UNCHANGED <<entry, regex, explicit, output, opstack, postfix, dicts,
                   sets, err, result, first, between>>

ThompsonFrame == <<entry, regex, explicit, output, opstack, postfix, result,
                   first, between>>

Locals == [stack |-> stack, dicts |-> dicts, sets |-> sets,
           next_state_id |-> next_state_id, err |-> "none"]

Token == postfix[1][idx]

\* one iteration of the loop of line 169, st being the locals after it
Iterate(st) ==
    /\ stack' = st.stack
    /\ dicts' = st.dicts
    /\ sets' = st.sets
    /\ next_state_id' = st.next_state_id
    /\ err' = st.err
    /\ IF st.err = "none"
       THEN idx' = idx + 1 /\ pc' = pc
       ELSE idx' = idx /\ pc' = "done"
    /\ UNCHANGED ThompsonFrame

AtToken == pc = "thompson" /\ idx <= Len(postfix[1])

Literal ==
    /\ AtToken /\ Token \notin {"*", "+", "?", ".", "|"}
    /\ Iterate(LiteralRule(Locals, Token))

Star ==
    /\ AtToken /\ Token = "*"
    /\ Iterate(StarRule(Locals))

Plus ==
    /\ AtToken /\ Token = "+"
    /\ Iterate(PlusRule(Locals))

Option ==
    /\ AtToken /\ Token = "?"
    /\ Iterate(OptionRule(Locals))

Concat ==
    /\ AtToken /\ Token = "."
    /\ Iterate(ConcatRule(Locals))

Union ==
    /\ AtToken /\ Token = "|"
    /\ Iterate(UnionRule(Locals))

\* lines 287-291
Return ==
    /\ pc = "thompson" /\ idx > Len(postfix[1])
    /\ IF Len(stack) # 1
       THEN err' = "ValueError" /\ result' = <<>> /\ stack' = stack
       ELSE err' = err /\ result' = <<Top(stack)>> /\ stack' = Pop(stack)
    /\ pc' = "done"
    /\ UNCHANGED <<entry, regex, explicit, idx, output, opstack, postfix,
                   dicts, sets, next_state_id, first, between>>

Next ==
    \/ InsertConcatenation
    \/ ShuntOpen
    \/ ShuntClose
    \/ ShuntOperator
    \/ ShuntOperand
    \/ ShuntReturn
    \/ EnterPostfixToNfa
    \/ Literal
    \/ Star
    \/ Plus
    \/ Option
    \/ Concat
    \/ Union
    \/ Return

Spec == Init /\ [][Next]_vars

-----------------------------------------------------------------------------
(* Several calls of regex_to_nfa, one after the other *)

\* the transition table of an NFA object as a value: state -> label -> states
Table(nfa, D, S) ==
    [s \in DOMAIN nfa.transitions |->
        [l \in DOMAIN D[nfa.transitions[s]] |-> S[D[nfa.transitions[s]][l]]]]

\* what a caller reads from the returned object (lines 317-322)
View(nfa) ==
    [start_state |-> nfa.start_state, accept_state |-> nfa.accept_state,
     transitions |-> Table(nfa, dicts, sets)]

Outcome == [regex |-> regex, err |-> err,
            result |-> IF result = <<>> THEN <<>> ELSE <<View(result[1])>>]

InitCalls ==
    /\ \E r \in CallInputs : BeginRegex(r)
    /\ next_state_id = 0
    /\ first = <<>>
    /\ between = FALSE

\* The finished call's frame is gone and regex_to_nfa(r) is called again.
\* next_state_id keeps the value the finished call left: line 160 is what
\* gives the counter of the new call its value.
StartCall(r) ==
    /\ pc = "done"
    /\ first' = IF first = <<>> THEN <<Outcome>> ELSE first
    /\ between' = (between \/ r # (IF first = <<>> THEN regex ELSE first[1].regex))
    /\ entry' = "regex_to_nfa"
    /\ regex' = r
    /\ pc' = "insert"
    /\ explicit' = <<>> /\ idx' = 1 /\ output' = <<>> /\ opstack' = <<>>
    /\ postfix' = <<>> /\ stack' = <<>> /\ dicts' = <<>> /\ sets' = <<>>
    /\ err' = "none" /\ result' = <<>>
    /\ UNCHANGED next_state_id

CallAgain == StartCall(IF first = <<>> THEN regex ELSE first[1].regex)

CallOther == \E r \in OtherInputs : StartCall(r)

NextCalls ==
    \/ Next
    \/ CallAgain
    \/ CallOther

SpecCalls == InitCalls /\ [][NextCalls]_vars

-----------------------------------------------------------------------------
(* Vocabulary of the properties *)

Done == pc = "done"
RegexCall == entry = "regex_to_nfa"
PostfixCall == entry = "postfix_to_nfa"
Returned == Done /\ err = "none" /\ result # <<>>

\* the exception classes the code raises
IndexError == "IndexError"      \* list.pop() on an empty list
ValueError == "ValueError"      \* raise ValueError, line 289

IsOpen(c) == c = "("
IsClose(c) == c = ")"
IsLiteral(c) == c \notin {"*", "+", "?", "|", "(", ")"}
IsOperand(c) == IsLiteral(c) /\ c # "."
IsParen(c) == c \in {"(", ")"}
NotDot(c) == c # "."

\* nesting depth after the first k characters of r
DepthAt(r, k) ==
    Cardinality({j \in 1..k : r[j] = "("}) - Cardinality({j \in 1..k : r[j] = ")"})

Balanced(r) ==
    /\ \A k \in 1..Len(r) : DepthAt(r, k) >= 0
    /\ DepthAt(r, Len(r)) = 0

UnmatchedClose(r) == \E k \in 1..Len(r) : DepthAt(r, k) < 0

UnmatchedOpen(r) == ~UnmatchedClose(r) /\ DepthAt(r, Len(r)) > 0

(* The language of an expression, cut at MaxStr characters, and its        *)
(* postfix form, both read off the grammar                                 *)
(*    E ::= T | E '|' T      T ::= F | T F                                 *)
(*    F ::= A | F '*' | F '+' | F '?'      A ::= literal | '(' E ')'       *)
Strs == SeqsUpTo(Literals, MaxStr)

CatL(A, B) == {w \in {x \o y : x \in A, y \in B} : Len(w) <= MaxStr}

RECURSIVE PowL(_, _)
PowL(A, n) == IF n = 0 THEN {<<>>} ELSE CatL(PowL(A, n - 1), A)

StarL(A) == UNION {PowL(A, n) : n \in 0..MaxStr}
PlusL(A) == UNION {PowL(A, n) : n \in 1..(MaxStr + 1)}
OptL(A) == A \cup {<<>>}

Bad == [ok |-> FALSE, lang |-> {}, post |-> <<>>]

RECURSIVE ApplyOps(_, _)
ApplyOps(m, ops) ==
    IF ops = <<>> \/ ~m.ok THEN m
    ELSE LET o == Head(ops)
             l == CASE o = "*" -> StarL(m.lang)
                    [] o = "+" -> PlusL(m.lang)
                    [] OTHER -> OptL(m.lang)
         IN ApplyOps([ok |-> TRUE, lang |-> l, post |-> Append(m.post, o)], Tail(ops))

RECURSIVE ParseE(_)
RECURSIVE ParseT(_)
ParseE(r) ==
    LET bars == {k \in 1..Len(r) : r[k] = "|" /\ DepthAt(r, k) = 0}
    IN IF r = <<>> \/ ~Balanced(r) THEN Bad
       ELSE IF bars = {} THEN ParseT(r)
       ELSE LET k == CHOOSE x \in bars : \A y \in bars : y <= x
                l == ParseE(SubSeq(r, 1, k - 1))
                t == ParseE(SubSeq(r, k + 1, Len(r)))
            IN IF l.ok /\ t.ok
               THEN [ok |-> TRUE, lang |-> l.lang \cup t.lang,
                     post |-> Append(l.post \o t.post, "|")]
               ELSE Bad

ParseT(r) ==
    LET n     == Len(r)
        atoms == {k \in 1..n : r[k] \notin {"*", "+", "?"}}
    IN IF atoms = {} THEN Bad
       ELSE LET j == CHOOSE x \in atoms : \A y \in atoms : y <= x
                opens == {k \in 1..(j - 1) :
                            r[k] = "(" /\ DepthAt(r, k - 1) = DepthAt(r, j)}
                i == IF r[j] = ")" /\ opens # {}
                     THEN CHOOSE x \in opens : \A y \in opens : y <= x
                     ELSE j
                atom == IF r[j] = ")" /\ i < j THEN ParseE(SubSeq(r, i + 1, j - 1))
                        ELSE IF IsLiteral(r[j])
                             THEN [ok |-> TRUE, lang |-> {<<r[j]>>}, post |-> <<r[j]>>]
                        ELSE Bad
                f == ApplyOps(atom, SubSeq(r, j + 1, n))
                t == IF i = 1 THEN f ELSE ParseT(SubSeq(r, 1, i - 1))
            IN IF ~f.ok \/ ~t.ok THEN Bad
               ELSE IF i = 1 THEN f
               ELSE [ok |-> TRUE, lang |-> CatL(t.lang, f.lang),
                     post |-> Append(t.post \o f.post, ".")]

WellFormed(r) == ParseE(r).ok

(* Running an automaton: epsilon-closure simulation from start_state *)
Moves(T, Q, l) ==
    UNION {IF l \in DOMAIN T[q] THEN T[q][l] ELSE {} : q \in Q \cap DOMAIN T}

RECURSIVE Closure(_, _)
Closure(T, Q) ==
    LET Q2 == Q \cup Moves(T, Q, EPS)
    IN IF Q2 = Q THEN Q ELSE Closure(T, Q2)

RECURSIVE Run(_, _, _)
Run(T, Q, w) ==
    IF w = <<>> THEN Q
    ELSE Run(T, Closure(T, Moves(T, Q, Head(w))), Tail(w))

Accepts(v, w) ==
    v.accept_state \in Run(v.transitions, Closure(v.transitions, {v.start_state}), w)

Accepted(v) == {w \in Strs : Accepts(v, w)}

\* states and non-epsilon edges of a table
StatesOf(v) ==
    {v.start_state, v.accept_state} \cup DOMAIN v.transitions
      \cup UNION {UNION {v.transitions[q][l] : l \in DOMAIN v.transitions[q]} :
                    q \in DOMAIN v.transitions}

EdgesOf(v) ==
    UNION {UNION {{<<q, l, t>> : t \in v.transitions[q][l]} :
                    l \in DOMAIN v.transitions[q]} : q \in DOMAIN v.transitions}

NonEpsilonEdges(v) == {e \in EdgesOf(v) : e[2] # EPS}

ExampleRegex == <<"(", "a", "|", "b", ")", "?", "a">>

-----------------------------------------------------------------------------
(* Properties *)

A_Plus == <<"a", "+">>
A_Option == <<"a", "?">>
A_B == <<"a", "b">>

\* C1: the automaton regex_to_nfa returns for a well-formed expression
\* accepts a string exactly when the string is in the expression's language;
\* "a+" rejects "", "a?" rejects "aa", "ab" accepts only "ab", and "(a|b)?a"
\* accepts a, aa, ba and rejects "", b, bb.
C1_LanguageCorrect ==
    (Done /\ RegexCall /\ WellFormed(regex)) =>
        /\ Returned
        /\ Accepted(View(result[1])) = ParseE(regex).lang
        /\ regex = A_Plus => <<>> \notin Accepted(View(result[1]))
        /\ regex = A_Option => <<"a", "a">> \notin Accepted(View(result[1]))
        /\ regex = A_B => Accepted(View(result[1])) = {<<"a", "b">>}
        /\ regex = ExampleRegex =>
              /\ {<<"a">>, <<"a", "a">>, <<"b", "a">>} \subseteq Accepted(View(result[1]))
              /\ {<<>>, <<"b">>, <<"b", "b">>} \cap Accepted(View(result[1])) = {}

C1_Witness ==
    /\ Returned /\ RegexCall /\ regex = ExampleRegex
    /\ Accepts(View(result[1]), <<"b", "a">>)
    /\ ~Accepts(View(result[1]), <<"b", "b">>)

MalformedExpressionError == IndexError
InvalidPostfixError == ValueError

\* C2: a regex with an opening marker left unmatched at the end of the input
\* makes regex_to_nfa end in the malformed-expression error, and no automaton
\* is returned.
C2_UnmatchedOpenFails ==
    (Done /\ RegexCall /\ UnmatchedOpen(regex)) =>
        /\ err = MalformedExpressionError
        /\ result = <<>>

\* C3: a regex with a closing marker that has no opening marker makes
\* infix_to_postfix end in the malformed-expression error without a postfix
\* string, and that error is of the kind an unmatched opening marker ends in.
C3_UnmatchedCloseSameKind ==
    /\ (Done /\ RegexCall /\ UnmatchedClose(regex)) =>
          err = MalformedExpressionError /\ postfix = <<>> /\ result = <<>>
    /\ (Done /\ RegexCall /\ UnmatchedOpen(regex) /\ err # "none") =>
          err = MalformedExpressionError

\* C4: postfix_to_nfa ends either with exactly one automaton or with the
\* invalid-postfix error, the kind raised for a final fragment stack of size
\* other than one; an operator short of operands ends in that same kind.
C4_OneErrorKind ==
    (Done /\ PostfixCall) =>
        \/ Returned
        \/ err = InvalidPostfixError /\ result = <<>>

\* C5: for a regex with balanced grouping infix_to_postfix returns a string
\* without '(' and ')', with the literals in the order of the input and, for
\* a well-formed regex, the operators where precedence | < . < * + ? with
\* left association puts them; "(a|b)?a" gives "ab|?a.".
C5_Postfix ==
    (RegexCall /\ Balanced(regex) /\ pc \notin {"insert", "shunt"}) =>
        /\ postfix # <<>>
        /\ SelectSeq(postfix[1], IsParen) = <<>>
        /\ SelectSeq(postfix[1], IsOperand) = SelectSeq(regex, IsOperand)
        /\ WellFormed(regex) => postfix[1] = ParseE(regex).post
        /\ regex = ExampleRegex => postfix[1] = <<"a", "b", "|", "?", "a", ".">>

C5_Witness ==
    /\ RegexCall /\ regex = ExampleRegex /\ pc = "enter_postfix"
    /\ postfix = << <<"a", "b", "|", "?", "a", ".">> >>

C6_Trigger(c, n) ==
    /\ c # "(" /\ c # "|"
    /\ n # ")" /\ n # "|" /\ n # "*" /\ n # "+" /\ n # "?"

\* C6: step 1 of infix_to_postfix puts a '.' between adjacent characters c, n
\* exactly when c is neither '(' nor '|' and n is none of ')', '|', '*', '+',
\* '?'; it changes nothing else and raises no error.
C6_ConcatInsertion ==
    (RegexCall /\ pc # "insert") =>
        /\ pc = "shunt" /\ idx = 1 => err = "none"
        /\ SelectSeq(explicit, NotDot) = regex
        /\ Len(explicit) = Len(regex) +
              Cardinality({k \in 1..(Len(regex) - 1) : C6_Trigger(regex[k], regex[k + 1])})
        /\ \A k \in 1..Len(explicit) :
              explicit[k] = "." =>
                 /\ 1 < k /\ k < Len(explicit)
                 /\ explicit[k - 1] # "." /\ explicit[k + 1] # "."
                 /\ C6_Trigger(explicit[k - 1], explicit[k + 1])
        /\ \A k \in 1..(Len(explicit) - 1) :
              (explicit[k] # "." /\ explicit[k + 1] # ".") =>
                 ~C6_Trigger(explicit[k], explicit[k + 1])

C6_Witness ==
    /\ RegexCall /\ pc = "shunt" /\ regex = ExampleRegex
    /\ explicit = <<"(", "a", "|", "b", ")", "?", ".", "a">>

\* C7: the automaton regex_to_nfa returns has as many non-epsilon transitions
\* as the regex has literal characters; for a single literal it has two
\* states and one transition, from start_state to accept_state.
C7_LiteralCount ==
    (Returned /\ RegexCall) =>
        /\ Cardinality(NonEpsilonEdges(View(result[1])))
              = Len(SelectSeq(regex, IsLiteral))
        /\ (Len(regex) = 1 /\ IsLiteral(regex[1])) =>
              /\ Cardinality(StatesOf(View(result[1]))) = 2
              /\ EdgesOf(View(result[1]))
                    = {<<result[1].start_state, regex[1], result[1].accept_state>>}


\* C8: a call of regex_to_nfa on the input of the first call, whatever calls
\* were made in between, ends as the first call did (same error, or the same
\* start_state, accept_state and transitions); the counter is 0 when the
\* construction of a call starts, and the identifiers in use are as many as
\* the allocations made: none was handed out twice.
C8_CallsIndependent ==
    /\ (Done /\ first # <<>> /\ regex = first[1].regex) => Outcome = first[1]
    /\ (pc = "thompson" /\ idx = 1) => next_state_id = 0
    /\ pc = "thompson" =>
          /\ UNION {StatesOf(View(stack[i])) : i \in 1..Len(stack)}
                = 0..(next_state_id - 1)
          /\ next_state_id
                = 2 * Cardinality({k \in 1..(idx - 1) : postfix[1][k] # "."})

C8_Witness ==
    /\ Returned /\ between
    /\ first # <<>> /\ regex = first[1].regex
    /\ next_state_id = 4

\* a composition rule has just replaced its operands by its result
Composed ==
    /\ pc = "thompson" /\ idx <= Len(postfix[1])
    /\ Token \in {"*", "+", "?", ".", "|"}
    /\ pc' = "thompson" /\ idx' = idx + 1

Operands ==
    IF Token \in {"*", "+", "?"} THEN {Top(stack)}
    ELSE {Top(stack), Top(Pop(stack))}

DictIds(nfa) == {nfa.transitions[q] : q \in DOMAIN nfa.transitions}
SetIds(nfa, D) == UNION {{D[d][l] : l \in DOMAIN D[d]} : d \in DictIds(nfa)}

\* C9: the fragment a composition rule builds shares no inner label map and
\* no destination set with a fragment it was built from.
C9_NoSharedObjects ==
    [][Composed =>
         \A o \in Operands :
            /\ DictIds(Top(stack')) \cap DictIds(o) = {}
            /\ SetIds(Top(stack'), dicts') \cap SetIds(o, dicts) = {}]_vars

C10_Fragments ==
    pc = "thompson" =>
        /\ \A i \in 1..Len(stack) :
              \A e \in EdgesOf(View(stack[i])) :
                 /\ e[1] # stack[i].accept_state
                 /\ e[3] # stack[i].start_state
        /\ \A i, j \in 1..Len(stack) :
              i # j => StatesOf(View(stack[i])) \cap StatesOf(View(stack[j])) = {}

C10_Frame ==
    Composed =>
        LET new == [start_state |-> Top(stack').start_state,
                    accept_state |-> Top(stack').accept_state,
                    transitions |-> Table(Top(stack'), dicts', sets')]
        IN /\ \A d \in 1..Len(dicts) : dicts'[d] = dicts[d]
           /\ \A x \in 1..Len(sets) : sets'[x] = sets[x]
           /\ \A o \in Operands :
                 \A q \in DOMAIN o.transitions :
                    new.transitions[q] = View(o).transitions[q]
           /\ \A e \in EdgesOf(new) \ UNION {EdgesOf(View(o)) : o \in Operands} :
                 /\ e[2] = EPS
                 /\ \A o \in Operands : e[1] \notin DOMAIN o.transitions

\* C10: every fragment on the fragment stack has an accept state without
\* outgoing and a start state without incoming transitions, the fragments on
\* the stack have no state in common, and a composition rule adds only
\* epsilon-transitions, under states that are no keys of an operand's table,
\* leaving every existing entry as it was.
C10_OperandsUntouched == []C10_Fragments /\ [][C10_Frame]_vars

C10_Witness ==
    /\ pc = "thompson" /\ Len(stack) = 2
    /\ Cardinality(DOMAIN stack[1].transitions) >= 3
    /\ Cardinality(DOMAIN stack[2].transitions) >= 3

====
